---- MODULE Spec2Model ----
(***************************************************************************)
(* Model of src/src/dump.rs: the candump log reader (Reader::next_record)  *)
(* and its iterator adapter (CanDumpRecords).                              *)
(*                                                                         *)
(* A byte is modelled as a one-character string; InvalidByte stands for a  *)
(* byte (0xFF) that is never part of valid UTF-8.  Unsigned integers are   *)
(* modelled exactly, as canonical sequences of decimal digits (most        *)
(* significant first, no leading zero, <<0>> for zero), so that u64::MAX   *)
(* and the saturating arithmetic keep their real width.                    *)
(***************************************************************************)
EXTENDS Integers, Sequences, FiniteSets, TLC

VARIABLES
    src,         \* the bytes of the underlying source (fixed for a run)
    pos,         \* read cursor of self.rdr: number of bytes consumed
    line_buf,    \* Reader.line_buf
    bytes_read,  \* local of the last next_record call; -1 when read_until failed / no call yet
    ret,         \* result of the last next_record call
    io_fails,    \* number of I/O failures injected so far
    adapter,     \* TRUE while a CanDumpRecords borrows the reader
    iter_ret,    \* result of the last next() call on the current adapter
    iter_calls,  \* number of next() calls on the current adapter
    iter_start,  \* read cursor at the time the current adapter was created
    yielded      \* number of Some(_) elements the current adapter produced

vars == <<src, pos, line_buf, bytes_read, ret, io_fails, adapter, iter_ret, iter_calls,
          iter_start, yielded>>

-----------------------------------------------------------------------------
(* Bounds of the model *)

MaxLines == 2
MaxIoFail == 1
MaxCalls == 4

-----------------------------------------------------------------------------
(* Bytes and digits *)

InvalidByte == "0xFF"

DecChars == <<"0", "1", "2", "3", "4", "5", "6", "7", "8", "9">>

IsDecDigit(c) == \E i \in 1..10 : DecChars[i] = c

DecVal(c) == (CHOOSE i \in 1..10 : DecChars[i] = c) - 1

HexChars == <<"0", "1", "2", "3", "4", "5", "6", "7", "8", "9",
              "A", "B", "C", "D", "E", "F", "a", "b", "c", "d", "e", "f">>

IsHexDigit(c) == \E i \in 1..22 : HexChars[i] = c

HexVal(c) == LET i == CHOOSE j \in 1..22 : HexChars[j] = c
             IN  IF i <= 16 THEN i - 1 ELSE i - 7

-----------------------------------------------------------------------------
(* Exact unsigned arithmetic on canonical decimal digit sequences *)

U64Max == <<1,8,4,4,6,7,4,4,0,7,3,7,0,9,5,5,1,6,1,5>>

U32Max == <<4,2,9,4,9,6,7,2,9,5>>

RECURSIVE Strip(_)
Strip(ds) == IF Len(ds) > 1 /\ ds[1] = 0 THEN Strip(Tail(ds)) ELSE ds

RECURSIVE LexLeq(_, _)
LexLeq(a, b) ==
    IF a = <<>> THEN TRUE
    ELSE IF a[1] # b[1] THEN a[1] < b[1]
    ELSE LexLeq(Tail(a), Tail(b))

\* a <= b for canonical digit sequences
Leq(a, b) ==
    IF Len(a) # Len(b) THEN Len(a) < Len(b) ELSE LexLeq(a, b)

\* digit i of a counted from the least significant end (1-based), 0 beyond
DigitFromEnd(a, i) == IF i <= Len(a) THEN a[Len(a) - i + 1] ELSE 0

RECURSIVE AddFrom(_, _, _, _)
AddFrom(a, b, i, carry) ==
    IF i > Len(a) /\ i > Len(b)
    THEN IF carry = 0 THEN <<>> ELSE <<carry>>
    ELSE LET s == DigitFromEnd(a, i) + DigitFromEnd(b, i) + carry
         IN  Append(AddFrom(a, b, i + 1, s \div 10), s % 10)

\* exact a + b
Add(a, b) == Strip(AddFrom(a, b, 1, 0))

\* exact a * 1_000_000
MulMillion(a) == IF a = <<0>> THEN <<0>> ELSE a \o <<0, 0, 0, 0, 0, 0>>

\* u64::saturating_mul(1_000_000)
SaturatingMulMillion(a) ==
    LET p == MulMillion(a) IN IF Leq(p, U64Max) THEN p ELSE U64Max

\* u64::saturating_add
SaturatingAdd(a, b) ==
    LET s == Add(a, b) IN IF Leq(s, U64Max) THEN s ELSE U64Max

-----------------------------------------------------------------------------
(* Option and Result values *)

None == [some |-> FALSE]

Some(v) == [some |-> TRUE, val |-> v]

OkNone == [tag |-> "OkNone"]

OkSome(rec) == [tag |-> "OkSome", rec |-> rec]

Err(kind) == [tag |-> "Err", kind |-> kind]

NoCall == [tag |-> "NoCall"]

-----------------------------------------------------------------------------
(* Helpers of next_record *)

\* ::std::str::from_utf8(bytes).ok(): every modelled byte but InvalidByte is ASCII
FromUtf8Ok(bytes) == \A i \in 1..Len(bytes) : bytes[i] # InvalidByte

RECURSIVE DigitsOf(_)
DigitsOf(bytes) ==
    IF bytes = <<>> THEN <<>> ELSE <<DecVal(bytes[1])>> \o DigitsOf(Tail(bytes))

\* <unsigned>::from_str: an optional leading '+', then one or more decimal
\* digits, the value not above max; anything else is an error
FromStrUnsigned(s, max) ==
    LET digits == IF s # <<>> /\ s[1] = "+" THEN Tail(s) ELSE s
    IN  IF digits = <<>> THEN None
        ELSE IF \E i \in 1..Len(digits) : ~IsDecDigit(digits[i]) THEN None
        ELSE LET v == Strip(DigitsOf(digits))
             IN  IF Leq(v, max) THEN Some(v) ELSE None

\* parse_raw::<T>(bytes) for an unsigned T with maximum max
parse_raw(bytes, max) ==
    IF FromUtf8Ok(bytes) THEN FromStrUnsigned(bytes, max) ELSE None

\* slice.iter().position(|&c| c == b): 0-based index of the first b
Position(f, b) ==
    IF \E i \in 1..Len(f) : f[i] = b
    THEN Some((CHOOSE i \in 1..Len(f) : f[i] = b /\ \A j \in 1..(i - 1) : f[j] # b) - 1)
    ELSE None

\* slice.split_at(mid): (slice[..mid], slice[mid..])
split_at(f, mid) == <<SubSeq(f, 1, mid), SubSeq(f, mid + 1, Len(f))>>

\* slice.split(|&c| c == b' '): the subslices between the spaces, in order;
\* never empty (an empty slice yields one empty subslice)
RECURSIVE SplitFields(_)
SplitFields(buf) ==
    LET sp == Position(buf, " ")
    IN  IF ~sp.some THEN <<buf>>
        ELSE <<SubSeq(buf, 1, sp.val)>> \o SplitFields(SubSeq(buf, sp.val + 2, Len(buf)))

RECURSIVE HexPairs(_)
HexPairs(s) ==
    IF s = <<>> THEN <<>>
    ELSE <<16 * HexVal(s[1]) + HexVal(s[2])>> \o HexPairs(Tail(Tail(s)))

\* Vec::from_hex: an even number of hex digits (either case), decoded pairwise
FromHex(s) ==
    IF \E i \in 1..Len(s) : ~IsHexDigit(s[i]) THEN None
    ELSE IF Len(s) % 2 # 0 THEN None
    ELSE Some(HexPairs(s))

MaxDataLen == 8

EffMask == <<5,3,6,8,7,0,9,1,1>>

\* super::CANFrame::new(id, data, rtr, err): the frame, or a ConstructionError
\* when the data is longer than a classic frame's or the id has reserved bits
CANFrameNew(id, data, rtr, err) ==
    IF Len(data) > MaxDataLen \/ ~Leq(id, EffMask) THEN None
    ELSE Some([id |-> id, data |-> data, rtr |-> rtr, err |-> err])

-----------------------------------------------------------------------------
(* Reader::next_record, after the read *)

\* The time field (lines 80-93): Ok(t_us) or Err(InvalidTimestamp).
ParseTimestamp_wrongKind(f) ==
    IF Len(f) < 3 \/ f[1] # "(" \/ f[Len(f)] # ")" THEN Err("InvalidTimestamp")
    ELSE LET dot == Position(f, ".")
         IN  IF ~dot.some THEN Err("UnexpectedEndOfLine")
             ELSE LET parts  == split_at(f, dot.val)
                      n_num  == parse_raw(parts[1], U64Max)
                      n_mant == parse_raw(parts[2], U64Max)
                  IN  IF ~n_num.some THEN Err("InvalidTimestamp")
                      ELSE IF ~n_mant.some THEN Err("InvalidTimestamp")
                      ELSE [tag |-> "Ok",
                            t_us |-> SaturatingAdd(SaturatingMulMillion(n_num.val), n_mant.val)]

ParseTimestamp(f) ==
    IF Len(f) < 3 \/ f[1] # "(" \/ f[Len(f)] # ")" THEN Err("InvalidTimestamp")
    ELSE LET dot == Position(f, ".")
         IN  IF ~dot.some THEN Err("InvalidTimestamp")
             ELSE LET parts  == split_at(f, dot.val)
                      n_num  == parse_raw(parts[1], U64Max)
                      n_mant == parse_raw(parts[2], U64Max)
                  IN  IF ~n_num.some THEN Err("InvalidTimestamp")
                      ELSE IF ~n_mant.some THEN Err("InvalidTimestamp")
                      ELSE [tag |-> "Ok",
                            t_us |-> SaturatingAdd(SaturatingMulMillion(n_num.val), n_mant.val)]

\* The packet field (lines 103-119): Ok(frame) or an error.
ParsePacket(can_raw) ==
    LET sep_idx == Position(can_raw, "#")
    IN  IF ~sep_idx.some THEN Err("InvalidCanFrame")
        ELSE LET parts    == split_at(can_raw, sep_idx.val)
                 can_id   == parts[1]
                 can_data == parts[2]
                 rtr      == (can_data = <<"R">>)
                 data     == IF rtr THEN Some(<<>>) ELSE FromHex(can_data)
             IN  IF ~data.some THEN Err("InvalidCanFrame")
                 ELSE LET id == parse_raw(can_id, U32Max)
                      IN  IF ~id.some THEN Err("InvalidCanFrame")
                          ELSE LET frame == CANFrameNew(id.val, data.val, rtr, FALSE)
                               IN  IF ~frame.some THEN Err("ConstructionError")
                                   ELSE [tag |-> "Ok", frame |-> frame.val]

\* Lines 75-125: tokenize the whole line buffer and decode its first three fields.
ParseLine(buf) ==
    LET field_iter == SplitFields(buf)
    IN  IF Len(field_iter) < 1 THEN Err("UnexpectedEndOfLine")
        ELSE LET ts == ParseTimestamp(field_iter[1])
             IN  IF ts.tag = "Err" THEN ts
                 ELSE IF Len(field_iter) < 2 THEN Err("UnexpectedEndOfLine")
                 ELSE IF ~FromUtf8Ok(field_iter[2]) THEN Err("InvalidDeviceName")
                 ELSE IF Len(field_iter) < 3 THEN Err("UnexpectedEndOfLine")
                 ELSE LET pk == ParsePacket(field_iter[3])
                      IN  IF pk.tag = "Err" THEN pk
                          ELSE OkSome([t_us   |-> ts.t_us,
                                       device |-> field_iter[2],
                                       frame  |-> pk.frame])

\* Lines 70-125: the result of next_record once read_until returned Ok(n).
NextRecordResult_parseFirst(n, buf) ==
    LET r == ParseLine(buf)
    IN  IF r.tag = "Err" THEN r ELSE IF n = 0 THEN OkNone ELSE r

NextRecordResult_blankIsEof(n, buf) ==
    IF n <= 1 THEN OkNone ELSE ParseLine(buf)

NextRecordResult(n, buf) ==
    IF n = 0 THEN OkNone ELSE ParseLine(buf)

\* Lines 134-138: Result<Option<record>> to Option<Result<(t_us, ())>>.
LiftOption(r) ==
    IF r.tag = "OkSome" THEN [tag |-> "SomeOk", t_us |-> r.rec.t_us]
    ELSE IF r.tag = "OkNone" THEN [tag |-> "None"]
    ELSE [tag |-> "SomeErr", kind |-> r.kind]

-----------------------------------------------------------------------------
(* The underlying buffered source *)

\* Number of bytes BufRead::read_until(b'\n', ..) takes from position p:
\* up to and including the next newline, or everything left.
LineLen(s, p) ==
    LET rest == SubSeq(s, p + 1, Len(s))
        nl   == Position(rest, "\n")
    IN  IF nl.some THEN nl.val + 1 ELSE Len(rest)

-----------------------------------------------------------------------------
(* Input lines the sources are built from *)

RECURSIVE Chars(_)
Chars(ds) == IF ds = <<>> THEN <<>> ELSE <<DecChars[ds[1] + 1]>> \o Chars(Tail(ds))

TsField(S, M) == <<"(">> \o Chars(S) \o <<".">> \o Chars(M) \o <<")">>

Line(ts, dev, payload) == ts \o <<" ">> \o dev \o <<" ">> \o payload \o <<"\n">>

Can0 == <<"c", "a", "n", "0">>

Id123 == <<"1", "2", "3", "#">>

TsSmall == TsField(<<1>>, <<5>>)

TsZero == TsField(<<0>>, <<0>>)

\* 18446744073710 * 1_000_000 is above u64::MAX
TsMulSat == TsField(<<1,8,4,4,6,7,4,4,0,7,3,7,1,0>>, <<0>>)

\* 18446744073709 * 1_000_000 + 551616 is u64::MAX + 1
TsAddSat == TsField(<<1,8,4,4,6,7,4,4,0,7,3,7,0,9>>, <<5,5,1,6,1,6>>)

Pool ==
    { Line(TsSmall, Can0, Id123 \o <<"R">>),
      Line(TsZero, Can0, Id123 \o <<"R", "R">>),
      Line(TsZero, Can0, Id123 \o <<"r">>),
      Line(TsSmall, Can0, Id123 \o <<"A", "B", "C">>),
      Line(TsSmall, Can0, Id123 \o <<"Z", "Z">>),
      Line(TsSmall, Can0, Id123 \o <<"0", "1", "0", "2">>),
      Line(TsMulSat, Can0, Id123 \o <<"R">>),
      Line(TsAddSat, Can0, Id123 \o <<"0", "1", "0", "2">>),
      Line(<<"(", "1", "2", "3", ")">>, Can0, Id123 \o <<"R">>),
      <<"1", ".", "5", "\n">>,
      TsSmall \o <<" ">> \o Can0 \o <<"\n">>,
      <<"\n">> }

RECURSIVE Concats(_)
Concats(n) ==
    IF n = 0 THEN {<<>>}
    ELSE Concats(n - 1) \cup {s \o l : s \in Concats(n - 1), l \in Pool}

\* up to MaxLines lines; the last line may lack its terminator
Sources ==
    Concats(MaxLines) \cup {SubSeq(s, 1, Len(s) - 1) : s \in Concats(MaxLines) \ {<<>>}}

-----------------------------------------------------------------------------
(* State machine *)

Init ==
    /\ src \in Sources
    /\ pos = 0
    /\ line_buf = <<>>
    /\ bytes_read = -1
    /\ ret = NoCall
    /\ io_fails = 0
    /\ adapter = FALSE
    /\ iter_ret = NoCall
    /\ iter_calls = 0
    /\ iter_start = 0
    /\ yielded = 0

\* Lines 67-126.  read_until appends to line_buf, which next_record never
\* clears.  An I/O failure (line 68, try!) comes either before any byte was
\* appended or after every byte short of the terminator was.
DoNextRecord ==
    LET n == LineLen(src, pos)
        terminated == n > 0 /\ src[pos + n] = "\n"
    IN  \/ /\ line_buf' = line_buf \o SubSeq(src, pos + 1, pos + n)
           /\ pos' = pos + n
           /\ bytes_read' = n
           /\ ret' = NextRecordResult(n, line_buf')
           /\ io_fails' = io_fails
        \/ /\ io_fails < MaxIoFail
           /\ \E k \in {0, IF terminated THEN n - 1 ELSE n} :
                /\ line_buf' = line_buf \o SubSeq(src, pos + 1, pos + k)
                /\ pos' = pos + k
           /\ bytes_read' = -1
           /\ ret' = Err("Io")
           /\ io_fails' = io_fails + 1

\* Reader::next_record called directly (no adapter borrows the reader)
NextRecord ==
    /\ ~adapter
    /\ DoNextRecord
    /\ UNCHANGED <<src, adapter, iter_ret, iter_calls, iter_start, yielded>>

\* Reader::records (lines 63-65)
Records ==
    /\ ~adapter
    /\ adapter' = TRUE
    /\ iter_start' = pos
    /\ UNCHANGED <<src, pos, line_buf, bytes_read, ret, io_fails, iter_ret, iter_calls, yielded>>

\* CanDumpRecords::next (lines 132-139)
IterNext ==
    /\ adapter
    /\ iter_calls < MaxCalls
    /\ DoNextRecord
    /\ iter_ret' = LiftOption(ret')
    /\ iter_calls' = iter_calls + 1
    /\ yielded' = IF iter_ret'.tag = "None" THEN yielded ELSE yielded + 1
    /\ UNCHANGED <<src, adapter, iter_start>>

\* the adapter goes out of scope, ending its borrow of the reader; what it
\* returned goes with it
DropAdapter ==
    /\ adapter
    /\ adapter' = FALSE
    /\ iter_ret' = NoCall
    /\ iter_calls' = 0
    /\ iter_start' = 0
    /\ yielded' = 0
    /\ UNCHANGED <<src, pos, line_buf, bytes_read, ret, io_fails>>

Next == NextRecord \/ Records \/ IterNext \/ DropAdapter

Spec == Init /\ [][Next]_vars

-----------------------------------------------------------------------------
(* What the claims speak about *)

\* the bytes the last call read (its line of the source), when it read any
cur_line ==
    IF bytes_read > 0
    THEN SubSeq(line_buf, Len(line_buf) - bytes_read + 1, Len(line_buf))
    ELSE <<>>

\* a line without its terminator
Body(l) == IF l # <<>> /\ l[Len(l)] = "\n" THEN SubSeq(l, 1, Len(l) - 1) ELSE l

\* the space-separated fields of the line just read
Fields == SplitFields(Body(cur_line))

\* the last call was the first call on the reader and read a line
Fresh == io_fails = 0 /\ bytes_read > 0 /\ Len(line_buf) = bytes_read

AllDec(t) == t # <<>> /\ \A i \in 1..Len(t) : IsDecDigit(t[i])

AllHex(t) == \A i \in 1..Len(t) : IsHexDigit(t[i])

Inner(f) == SubSeq(f, 2, Len(f) - 1)

SecondsText(f) == SubSeq(Inner(f), 1, Position(Inner(f), ".").val)

MicrosText(f) == SubSeq(Inner(f), Position(Inner(f), ".").val + 2, Len(Inner(f)))

Seconds(f) == Strip(DigitsOf(SecondsText(f)))

Micros(f) == Strip(DigitsOf(MicrosText(f)))

\* (S.M) with S and M non-empty decimal digit strings that fit in a u64
WellFormedTs(f) ==
    /\ Len(f) >= 5 /\ f[1] = "(" /\ f[Len(f)] = ")"
    /\ Position(Inner(f), ".").some
    /\ AllDec(SecondsText(f)) /\ AllDec(MicrosText(f))
    /\ Leq(Seconds(f), U64Max) /\ Leq(Micros(f), U64Max)

\* S * 1_000_000 + M, exactly
ExactMicros(f) == Add(MulMillion(Seconds(f)), Micros(f))

HasSep(p) == Position(p, "#").some

IdText(p) == SubSeq(p, 1, Position(p, "#").val)

\* the data portion: what follows the first '#'
DataText(p) == SubSeq(p, Position(p, "#").val + 2, Len(p))

\* id#R or id#hexdata with at most eight data bytes
AcceptedPayload(p) ==
    /\ HasSep(p)
    /\ AllDec(IdText(p)) /\ Leq(Strip(DigitsOf(IdText(p))), EffMask)
    /\ \/ DataText(p) = <<"R">>
       \/ AllHex(DataText(p)) /\ Len(DataText(p)) % 2 = 0 /\ Len(DataText(p)) <= 2 * MaxDataLen

\* the line just read has the form (S.M) dev payload
ThreeFields == Len(Fields) = 3 /\ WellFormedTs(Fields[1]) /\ FromUtf8Ok(Fields[2])

\* number of lines read_until finds in s
NumLines(s) ==
    Cardinality({i \in 1..Len(s) : s[i] = "\n"})
        + (IF s # <<>> /\ s[Len(s)] # "\n" THEN 1 ELSE 0)

-----------------------------------------------------------------------------
(* Claims *)

\* C1: on a fresh reader, a well-formed line (S.M) dev id#hexdata whose
\* S*1_000_000 + M fits a u64 decodes to Ok(Some(record)) with exactly that t_us.
C1_ExactTimestamp ==
    (Fresh /\ ThreeFields /\ AcceptedPayload(Fields[3])
        /\ Leq(ExactMicros(Fields[1]), U64Max))
    => (ret.tag = "OkSome" /\ ret.rec.t_us = ExactMicros(Fields[1]))

\* C2: with no I/O failure, when a call tokenizes, the line buffer holds exactly
\* the bytes of the line that call read, never bytes of an earlier line.
C2_BufferHoldsCurrentLine ==
    (io_fails = 0 /\ bytes_read > 0)
    => line_buf = SubSeq(src, pos - bytes_read + 1, pos)

\* C3 (as stated, for runs with no I/O failure): once next() returned
\* Some(Err(_)) or None, every later next() on the same adapter returns None.
C3_FusedAfterErrOrNone ==
    [][(adapter /\ iter_calls' = iter_calls + 1 /\ io_fails' = 0
            /\ iter_ret.tag \in {"SomeErr", "None"})
        => iter_ret'.tag = "None"]_vars

\* C3 (amended): once next() returned None, every later next() on the same
\* adapter that meets no I/O failure returns None.
C3_NoneIsFinal ==
    [][(adapter /\ iter_calls' = iter_calls + 1 /\ io_fails' = io_fails
            /\ iter_ret.tag = "None")
        => iter_ret'.tag = "None"]_vars

\* a next() that followed a None on the same adapter returned None
C3_Witness ==
    adapter /\ io_fails = 0 /\ iter_ret.tag = "None" /\ iter_calls - yielded >= 2

\* C4: a call to which the source delivers zero bytes returns Ok(None), never
\* an Err, whatever the earlier calls returned.
C4_EofIsOkNone == bytes_read = 0 => ret = OkNone

\* end-of-input after earlier calls that read lines and returned errors
C4_Witness == bytes_read = 0 /\ ret = OkNone /\ line_buf # <<>> /\ io_fails > 0

\* C5: with a valid timestamp and device, data exactly R decodes to a remote
\* request frame with empty data; data RR or r gives Err(InvalidCanFrame).
C5_RemoteRequestExact ==
    (Fresh /\ ThreeFields /\ HasSep(Fields[3]) /\ AllDec(IdText(Fields[3])))
    => /\ DataText(Fields[3]) = <<"R">>
            => (ret.tag = "OkSome" /\ ret.rec.frame.data = <<>> /\ ret.rec.frame.rtr)
       /\ DataText(Fields[3]) \in {<<"R", "R">>, <<"r">>}
            => ret = Err("InvalidCanFrame")

\* C6: a line with a well-formed timestamp and a device but no third field
\* gives Err(UnexpectedEndOfLine).
C6_MissingPayload ==
    (Fresh /\ Len(Fields) = 2 /\ WellFormedTs(Fields[1]) /\ FromUtf8Ok(Fields[2]))
    => ret = Err("UnexpectedEndOfLine")

\* C7: with a well-formed timestamp and device, data after '#' that is of odd
\* length or not hex (and not exactly R) gives Err(InvalidCanFrame).
C7_BadHexData ==
    (Fresh /\ ThreeFields /\ HasSep(Fields[3])
        /\ DataText(Fields[3]) # <<"R">>
        /\ (Len(DataText(Fields[3])) % 2 = 1 \/ ~AllHex(DataText(Fields[3]))))
    => ret = Err("InvalidCanFrame")

\* the first field of the line just read lacks the parentheses or the dot
BadTsShape ==
    /\ bytes_read > 0
    /\ LET f == Fields[1]
       IN  \/ f = <<>>
           \/ f[1] # "("
           \/ f[Len(f)] # ")"
           \/ ~Position(f, ".").some

\* C8: a non-empty line whose first field does not start with '(' and end
\* with ')', or has no '.', gives Err(InvalidTimestamp), whatever follows it.
C8_BadTimestampShape == BadTsShape => ret = Err("InvalidTimestamp")

\* such a line with no device field at all: the error is still InvalidTimestamp
C8_Witness == BadTsShape /\ Len(Fields) = 1 /\ cur_line # <<"\n">> /\ ret = Err("InvalidTimestamp")

\* C9: when S and M fit a u64 but S*1_000_000 + M does not, the record's t_us
\* is u64::MAX.
C9_Saturates ==
    (Fresh /\ ThreeFields /\ AcceptedPayload(Fields[3])
        /\ ~Leq(ExactMicros(Fields[1]), U64Max))
    => (ret.tag = "OkSome" /\ ret.rec.t_us = U64Max)

\* C10: with no I/O failure, every element the adapter produced consumed exactly
\* one line, so it produces at most as many elements as the source has lines,
\* and the call after the last line returns None.
C10_Finite ==
    (adapter /\ io_fails = 0)
    => /\ yielded = NumLines(SubSeq(src, iter_start + 1, pos))
       /\ yielded <= NumLines(src)
       /\ iter_calls > yielded => (iter_ret.tag = "None" /\ pos = Len(src))
       /\ iter_calls > NumLines(src) => iter_ret.tag = "None"

\* an adapter that produced one element per line, malformed lines included,
\* and then None
C10_Witness ==
    /\ adapter /\ io_fails = 0 /\ iter_start = 0
    /\ NumLines(src) = MaxLines /\ yielded = MaxLines
    /\ iter_calls > yielded /\ iter_ret.tag = "None"

====
